---- MODULE Spec2Model ----
(***************************************************************************)
(* A model of precodita's dispatcher (src/precodita/_dispatcher.pyx): the  *)
(* Backend objects with their fixed or context-local priority, the module  *)
(* globals _backend_counter, _max_priority and _all_backends, and one      *)
(* Dispatchable with its alternatives, its fallback and its cache.         *)
(***************************************************************************)
EXTENDS Integers, Sequences, FiniteSets, TLC

VARIABLES
    _backend_counter,   \* module global: number of Backend objects created
    _max_priority,      \* module global: the "max priority" (the epoch)
    _all_backends,      \* module global: list of Backend objects, by creation
    ctx_priority,       \* [context -> [backend -> value of its ContextVar]]
    tokens,             \* [backend -> list of ContextVar tokens]
    scopes,             \* [context -> stack of backends whose `with` is open]
    fallback,           \* Dispatchable.fallback (None or a callable)
    alternatives,       \* Dispatchable.alternatives: list of <<backend, func>>
    cache,              \* Dispatchable.cache: ordered dict, oldest key first
    c_hits,             \* Dispatchable.c_hits
    c_misses,           \* Dispatchable.c_misses
    c_priority_misses,  \* Dispatchable.c_priority_misses
    ret,                \* what the last call did: its arguments and outcome
    m_backend,          \* argument of a lone Backend.matches call
    m_types,            \* argument of a lone Backend.matches call
    m_ret,              \* its return value, 1 or 0 (-1 before the call)
    s_types,            \* argument of a lone sorted_unique_types call
    s_other,            \* argument of a second such call
    s_ret,              \* the two return values (<<>> before the calls)
    used,               \* history: the cached keys' uses, latest use last
    before              \* history: [context -> for each open scope, the
                        \* priority its backend had when it was entered]

vars == <<_backend_counter, _max_priority, _all_backends, ctx_priority, tokens,
          scopes, fallback, alternatives, cache, c_hits, c_misses,
          c_priority_misses, ret, m_backend, m_types, m_ret, s_types, s_other,
          s_ret, used, before>>

globals == <<_backend_counter, _max_priority, _all_backends>>
contexts == <<ctx_priority, tokens, scopes, before>>
resolver == <<fallback, alternatives, cache, c_hits, c_misses, c_priority_misses>>
lone == <<m_backend, m_types, m_ret, s_types, s_other, s_ret>>

-----------------------------------------------------------------------------
(* Bounds of the model.                                                    *)

MaxBackends == 2       \* Backend objects created in one run
MaxScopeSteps == 3     \* increments of _max_priority by __enter__ and __exit__
MaxDepth == 2          \* nesting of `with backend:` in one context
MaxCalls == 2          \* dispatch calls between two cache resets
MaxLen == 2            \* length of a type tuple given to a lone matches call
MaxSortLen == 3        \* length of a type tuple given to sorted_unique_types
MaxKeys == 22          \* distinct keys dispatched while the cache fills
MaxRefused == 1        \* Backend constructions refused for being too many
MaxRepeats == 2        \* dispatch calls of a key dispatched before

-----------------------------------------------------------------------------
(* The classes handed to the dispatcher.  Animal and Pet are ABCs, the     *)
(* others are concrete; Puppy subclasses the concrete Dog.                 *)

Types == {"Animal", "Pet", "Dog", "Puppy", "Cat", "Str"}

Abstract == {"Animal", "Pet"}

\* The proper superclasses of each class.
Supers ==
    [t \in Types |->
        CASE t = "Dog" -> {"Animal", "Pet"}
          [] t = "Puppy" -> {"Dog", "Animal", "Pet"}
          [] t = "Cat" -> {"Animal"}
          [] OTHER -> {}]

\* The built-in issubclass(cls, other).
issubclass(cls, other) == cls = other \/ other \in Supers[cls]

\* The address of a type object, which orders the cache key.
Addr ==
    [t \in Types |->
        CASE t = "Animal" -> 1
          [] t = "Pet" -> 2
          [] t = "Dog" -> 3
          [] t = "Puppy" -> 4
          [] t = "Cat" -> 5
          [] OTHER -> 6]

None == "None"

\* A variant that takes a subclass of a concrete class for known.
is_strict_subclass_open(cls, other) == issubclass(cls, other)

is_strict_subclass(cls, other) ==
    IF cls = other THEN TRUE
    ELSE IF other \notin Abstract THEN FALSE
    ELSE issubclass(cls, other)

-----------------------------------------------------------------------------
(* Backend.matches                                                         *)

\* A variant of the anchor loops that scans for a subclass whether or not
\* dispatch_type is abstract.
RECURSIVE FirstAnchor_subclass(_, _, _)
FirstAnchor_subclass(dispatch_type, given_types, i) ==
    IF i > Len(given_types) THEN 0
    ELSE IF issubclass(given_types[i], dispatch_type) THEN i
    ELSE FirstAnchor_subclass(dispatch_type, given_types, i + 1)

\* The two anchor loops of matches: the index of the first type from
\* position i on that is the dispatch_type (a subclass of it when it is
\* abstract), or 0.
RECURSIVE FirstAnchor(_, _, _)
FirstAnchor(dispatch_type, given_types, i) ==
    IF i > Len(given_types) THEN 0
    ELSE IF (IF dispatch_type \notin Abstract
             THEN given_types[i] = dispatch_type
             ELSE issubclass(given_types[i], dispatch_type))
         THEN i
         ELSE FirstAnchor(dispatch_type, given_types, i + 1)

\* The second loop of matches, from position i on.
RECURSIVE RestAccepted(_, _, _, _)
RestAccepted(b, given_types, main, i) ==
    IF i > Len(given_types) THEN TRUE
    ELSE LET t == given_types[i] IN
         IF t = main THEN RestAccepted(b, given_types, main, i + 1)
         ELSE IF is_strict_subclass(t, b.dispatch_type)
              THEN RestAccepted(b, given_types, main, i + 1)
         ELSE IF \E allowed \in b.promotable_types : is_strict_subclass(t, allowed)
              THEN RestAccepted(b, given_types, main, i + 1)
         ELSE FALSE

matches(b, given_types) ==
    LET a == FirstAnchor(b.dispatch_type, given_types, 1) IN
    IF a = 0 THEN FALSE
    ELSE RestAccepted(b, given_types, given_types[a], 1)

-----------------------------------------------------------------------------
(* Backend._more_specific, Backend.__richcmp__, Backend.get_priority.  A   *)
(* backend is named by its position in _all_backends; the record there     *)
(* holds dispatch_type, promotable_types and fixed_priority (-1: opt_in).  *)

\* A variant that prefers the lower fixed priority among backends of one
\* dispatch_type.
_more_specific_lower(self, other) ==
    IF self.dispatch_type = other.dispatch_type
    THEN IF self.fixed_priority >= 0 /\ other.fixed_priority >= 0
         THEN self.fixed_priority < other.fixed_priority
         ELSE FALSE
    ELSE \/ is_strict_subclass(self.dispatch_type, other.dispatch_type)
         \/ \E promotable \in other.promotable_types :
                is_strict_subclass(self.dispatch_type, promotable)

_more_specific(self, other) ==
    IF self.dispatch_type = other.dispatch_type
    THEN IF self.fixed_priority >= 0 /\ other.fixed_priority >= 0
         THEN self.fixed_priority > other.fixed_priority
         ELSE FALSE
    ELSE \/ is_strict_subclass(self.dispatch_type, other.dispatch_type)
         \/ \E promotable \in other.promotable_types :
                is_strict_subclass(self.dispatch_type, promotable)

\* self < other: "True", "False", or "TypeError" when both claim to be more
\* specific.
richcmp(self, other) ==
    IF ~_more_specific(self, other) THEN "False"
    ELSE IF _more_specific(other, self) THEN "TypeError"
    ELSE "True"

\* A variant that never reads the context variable.
get_priority_fixed_only(backends, cp, ctx, b) == backends[b].fixed_priority

\* The priority of backend b as seen from context ctx, given the context
\* variables cp.
get_priority(backends, cp, ctx, b) ==
    IF backends[b].fixed_priority >= 0
    THEN backends[b].fixed_priority
    ELSE cp[ctx][b]

-----------------------------------------------------------------------------
(* sorted_unique_types                                                     *)

\* A variant of the inner loop that appends a type not seen before instead
\* of inserting it at its place.
RECURSIVE InsertUnique_append(_, _, _)
InsertUnique_append(unique, t, i) ==
    IF i > Len(unique) THEN Append(unique, t)
    ELSE IF t = unique[i] THEN unique
    ELSE InsertUnique_append(unique, t, i + 1)

\* The inner loop of sorted_unique_types from position i on: t is dropped
\* when it is in unique, inserted before the first type at a higher address,
\* appended otherwise.
RECURSIVE InsertUnique(_, _, _)
InsertUnique(unique, t, i) ==
    IF i > Len(unique) THEN Append(unique, t)
    ELSE IF t = unique[i] THEN unique
    ELSE IF Addr[unique[i]] > Addr[t]
         THEN SubSeq(unique, 1, i - 1) \o <<t>> \o SubSeq(unique, i, Len(unique))
         ELSE InsertUnique(unique, t, i + 1)

RECURSIVE SortFrom(_, _, _)
SortFrom(types, k, unique) ==
    IF k > Len(types) THEN unique
    ELSE SortFrom(types, k + 1, InsertUnique(unique, types[k], 1))

sorted_unique_types(types) == SortFrom(types, 1, <<>>)

-----------------------------------------------------------------------------
(* Dispatchable.dispatch                                                   *)

CACHE_SIZE == 20

NoTypes == "Function called without types, but has no fallback!"
NoImplementation == "No implementation found for types"
MultipleMatching == "Multiple matching implementations found!"
InvalidHierarchy == "invalid type-hierarchy for two backends both claim to be more specific!"

\* A returned (backend, implementation) pair; backend 0 is Python's None.
Pair(b, f) == [backend |-> b, impl |-> f, fault |-> None]
Raise(msg) == [backend |-> 0, impl |-> None, fault |-> msg]
NoRes == <<0, None>>

\* A variant of the inner loop without the branch that replaces a less
\* specific candidate.
RECURSIVE Place_no_replace(_, _, _, _, _)
Place_no_replace(backends, matching_impls, b, f, i) ==
    IF i > Len(matching_impls)
    THEN [err |-> FALSE, impls |-> Append(matching_impls, <<b, f>>)]
    ELSE LET lt == richcmp(backends[matching_impls[i][1]], backends[b]) IN
         IF lt = "TypeError" THEN [err |-> TRUE, impls |-> matching_impls]
         ELSE IF lt = "True" THEN [err |-> FALSE, impls |-> matching_impls]
         ELSE Place_no_replace(backends, matching_impls, b, f, i + 1)

\* The inner loop of the candidate-list build: place (b, f) into
\* matching_impls, looking at position i.  err is set when a comparison
\* raised.
RECURSIVE Place(_, _, _, _, _)
Place(backends, matching_impls, b, f, i) ==
    IF i > Len(matching_impls)
    THEN [err |-> FALSE, impls |-> Append(matching_impls, <<b, f>>)]
    ELSE LET cb == matching_impls[i][1]
             lt == richcmp(backends[cb], backends[b])
             gt == richcmp(backends[b], backends[cb])
         IN  IF lt = "TypeError" THEN [err |-> TRUE, impls |-> matching_impls]
             ELSE IF lt = "True" THEN [err |-> FALSE, impls |-> matching_impls]
             ELSE IF gt = "TypeError" THEN [err |-> TRUE, impls |-> matching_impls]
             ELSE IF gt = "True"
                  THEN [err |-> FALSE,
                        impls |-> [matching_impls EXCEPT ![i] = <<b, f>>]]
             ELSE Place(backends, matching_impls, b, f, i + 1)

\* The outer loop over self.alternatives, from position k on.
RECURSIVE BuildMatching(_, _, _, _, _)
BuildMatching(backends, alts, typet, k, matching_impls) ==
    IF k > Len(alts) THEN [err |-> FALSE, impls |-> matching_impls]
    ELSE LET b == alts[k][1]
             f == alts[k][2]
         IN  IF ~matches(backends[b], typet)
             THEN BuildMatching(backends, alts, typet, k + 1, matching_impls)
             ELSE LET p == Place(backends, matching_impls, b, f, 1) IN
                  IF p.err THEN p
                  ELSE BuildMatching(backends, alts, typet, k + 1, p.impls)

\* A variant of the priority loop that compares priorities only, without
\* looking at the dispatch types.
RECURSIVE PickPriority_any_type(_, _, _, _, _, _)
PickPriority_any_type(backends, cp, ctx, matching_impls, i, res) ==
    IF i > Len(matching_impls) THEN [err |-> FALSE, res |-> res]
    ELSE LET c == matching_impls[i] IN
         IF get_priority(backends, cp, ctx, c[1]) < 0
         THEN PickPriority_any_type(backends, cp, ctx, matching_impls, i + 1, res)
         ELSE IF res = NoRes
                 \/ get_priority(backends, cp, ctx, c[1])
                        > get_priority(backends, cp, ctx, res[1])
              THEN PickPriority_any_type(backends, cp, ctx, matching_impls, i + 1, c)
         ELSE PickPriority_any_type(backends, cp, ctx, matching_impls, i + 1, res)

\* The loop over matching_impls that compares priorities, from position i
\* on with the current res (NoRes: None).
RECURSIVE PickPriority(_, _, _, _, _, _)
PickPriority(backends, cp, ctx, matching_impls, i, res) ==
    IF i > Len(matching_impls) THEN [err |-> FALSE, res |-> res]
    ELSE LET c == matching_impls[i]
             cb == c[1]
         IN  IF get_priority(backends, cp, ctx, cb) < 0
             THEN PickPriority(backends, cp, ctx, matching_impls, i + 1, res)
             ELSE IF res # NoRes
                     /\ backends[res[1]].dispatch_type # backends[cb].dispatch_type
                  THEN [err |-> TRUE, res |-> res]
             ELSE IF res = NoRes
                     \/ get_priority(backends, cp, ctx, cb)
                            > get_priority(backends, cp, ctx, res[1])
                  THEN PickPriority(backends, cp, ctx, matching_impls, i + 1, c)
             ELSE PickPriority(backends, cp, ctx, matching_impls, i + 1, res)

\* Position of key typet in the cache, 0 when absent.
CacheIndex(cch, typet) ==
    IF \E i \in 1..Len(cch) : cch[i].key = typet
    THEN CHOOSE i \in 1..Len(cch) : cch[i].key = typet
    ELSE 0

Without(seq, i) == SubSeq(seq, 1, i - 1) \o SubSeq(seq, i + 1, Len(seq))

\* A variant of the cache hit that leaves the key where it is.
Touch_in_place(cch, at) == cch

\* `self.cache.pop(typet)` and `self.cache[typet] = ...` of a cache hit: the
\* entry moves to the end of the ordered dict.
Touch(cch, at) == Append(Without(cch, at), cch[at])

\* A variant that never uses the fallback.
OrFallback_never(fb, res) == res

\* `res = None, self.fallback` when res is None and there is a fallback.
OrFallback(fb, res) == IF res = NoRes /\ fb # None THEN <<0, fb>> ELSE res

\* The part of dispatch after the candidate list is known: cch already
\* holds an entry for typet.  st carries the counters.
Select(backends, cp, maxp, fb, ctx, typet, matching_impls, cch, st) ==
    LET n == Len(matching_impls)
        done(c, r) == [st EXCEPT !.cache = c, !.res = r]
        final(c, res) == IF res = NoRes THEN done(c, Raise(NoImplementation))
                         ELSE done(c, Pair(res[1], res[2]))
    IN  IF n = 0 THEN final(cch, OrFallback(fb, NoRes))
        ELSE IF n = 1 THEN final(cch, matching_impls[1])
        ELSE LET p == PickPriority(backends, cp, ctx, matching_impls, 1, NoRes)
                 res == OrFallback(fb, p.res)
                 at == CacheIndex(cch, typet)
             IN  IF p.err THEN done(cch, Raise(MultipleMatching))
                 ELSE IF res = NoRes THEN final(cch, res)
                 ELSE final([cch EXCEPT ![at].stamp = maxp, ![at].res = res], res)

\* dispatch(types) called in context ctx on the resolver state
\* (alts, fb, cch, counters): the new cache and counters and the outcome.
dispatch(backends, cp, maxp, alts, fb, cch, hits, misses, pmisses, ctx, types) ==
    LET typet == sorted_unique_types(types)
        st0 == [cache |-> cch, c_hits |-> hits, c_misses |-> misses,
                c_priority_misses |-> pmisses, res |-> Raise(None)]
        at == CacheIndex(cch, typet)
    IN  IF Len(typet) = 0
        THEN IF fb # None THEN [st0 EXCEPT !.res = Pair(0, fb)]
             ELSE [st0 EXCEPT !.res = Raise(NoTypes)]
        ELSE IF at # 0
        THEN \* cached: pop and re-insert
             LET cached == cch[at]
                 cch1 == Touch(cch, at)
                 st1 == [st0 EXCEPT !.cache = cch1, !.c_hits = hits + 1]
             IN  IF Len(cached.impls) > 1 /\ maxp = cached.stamp
                 THEN [st1 EXCEPT !.res = Pair(cached.res[1], cached.res[2])]
                 ELSE LET st2 == IF Len(cached.impls) > 1
                                 THEN [st1 EXCEPT !.c_priority_misses = pmisses + 1]
                                 ELSE st1
                      IN  Select(backends, cp, maxp, fb, ctx, typet,
                                 cached.impls, cch1, st2)
        ELSE LET st1 == [st0 EXCEPT !.c_misses = misses + 1]
                 built == BuildMatching(backends, alts, typet, 1, <<>>)
                 kept == IF Len(cch) >= CACHE_SIZE THEN Tail(cch) ELSE cch
                 cch1 == Append(kept, [key |-> typet, impls |-> built.impls,
                                       stamp |-> -1, res |-> NoRes])
             IN  IF built.err THEN [st1 EXCEPT !.res = Raise(InvalidHierarchy)]
                 ELSE Select(backends, cp, maxp, fb, ctx, typet,
                             built.impls, cch1, st1)

-----------------------------------------------------------------------------
(* The state and the calls.  A context is a contextvars.Context: one per   *)
(* thread or task.                                                         *)

Contexts == {"T1", "T2"}

Backends == 1..Len(_all_backends)

opt_in(b) == _all_backends[b].fixed_priority < 0

\* The record kept of the last call.
Call(op, ctx, b, types, res) ==
    [op |-> op, ctx |-> ctx, backend |-> b, types |-> types, res |-> res]

Returned == Pair(0, None)

\* The module as imported and one Dispatchable as constructed.
Constructed ==
    /\ _backend_counter = 0
    /\ _max_priority = 65536
    /\ _all_backends = <<>>
    /\ ctx_priority = [c \in Contexts |-> <<>>]
    /\ tokens = <<>>
    /\ scopes = [c \in Contexts |-> <<>>]
    /\ before = [c \in Contexts |-> <<>>]
    /\ alternatives = <<>>
    /\ cache = <<>>
    /\ c_hits = 0
    /\ c_misses = 0
    /\ c_priority_misses = 0
    /\ ret = Call("init", "T1", 0, <<>>, Returned)

Init ==
    /\ Constructed
    /\ fallback \in {None, "fallback"}
    /\ m_backend = [dispatch_type |-> "Str", promotable_types |-> {},
                    fixed_priority |-> 1]
    /\ m_types = <<>>
    /\ m_ret = -1
    /\ s_types = <<>>
    /\ s_other = <<>>
    /\ s_ret = <<>>
    /\ used = <<>>

\* A variant of the constructor that admits one backend more before it
\* reports too many.
NewBackend_one_more(dispatch_type, promotable_types, is_opt_in) ==
    /\ Len(_all_backends) < MaxBackends
    /\ _backend_counter' = _backend_counter + 1
    /\ IF _backend_counter' > 65536 + 1
       THEN /\ ret' = Call("Backend", "T1", 0, <<>>, Raise("Too many backends, oooops! :)"))
            /\ UNCHANGED <<_all_backends, ctx_priority, tokens>>
       ELSE /\ _all_backends' = Append(_all_backends,
                    [dispatch_type |-> dispatch_type,
                     promotable_types |-> promotable_types,
                     fixed_priority |-> IF is_opt_in THEN -1 ELSE _backend_counter'])
            /\ ctx_priority' = [c \in Contexts |-> Append(ctx_priority[c], -1)]
            /\ tokens' = Append(tokens, <<>>)
            /\ ret' = Call("Backend", "T1", Len(_all_backends) + 1, <<>>, Returned)
    /\ UNCHANGED <<_max_priority, scopes, before, resolver, lone, used>>

\* Backend(name, dispatch_type, promotable_types, opt_in)
NewBackend(dispatch_type, promotable_types, is_opt_in) ==
    /\ Len(_all_backends) < MaxBackends
    /\ _backend_counter' = _backend_counter + 1
    /\ IF _backend_counter' > 65536
       THEN /\ ret' = Call("Backend", "T1", 0, <<>>, Raise("Too many backends, oooops! :)"))
            /\ UNCHANGED <<_all_backends, ctx_priority, tokens>>
       ELSE /\ _all_backends' = Append(_all_backends,
                    [dispatch_type |-> dispatch_type,
                     promotable_types |-> promotable_types,
                     fixed_priority |-> IF is_opt_in THEN -1 ELSE _backend_counter'])
            /\ ctx_priority' = [c \in Contexts |-> Append(ctx_priority[c], -1)]
            /\ tokens' = Append(tokens, <<>>)
            /\ ret' = Call("Backend", "T1", Len(_all_backends) + 1, <<>>, Returned)
    /\ UNCHANGED <<_max_priority, scopes, before, resolver, lone, used>>

\* A variant of register that appends the alternative and keeps the cache.
register_keeps_cache(backend, func) ==
    /\ IF backend = 0
       THEN /\ ret' = Call("register", "T1", backend, <<>>, Raise("Register must be a Backend!"))
            /\ UNCHANGED alternatives
       ELSE IF \E i \in 1..Len(alternatives) : alternatives[i][1] = backend
       THEN /\ ret' = Call("register", "T1", backend, <<>>,
                           Raise("Backend already has an alternative registered."))
            /\ UNCHANGED alternatives
       ELSE /\ alternatives' = Append(alternatives, <<backend, func>>)
            /\ ret' = Call("register", "T1", backend, <<>>, Pair(backend, func))
    /\ UNCHANGED <<globals, contexts, fallback, lone, cache, c_hits, c_misses,
                   c_priority_misses, used>>

\* A variant of register without the loop that looks for the backend in
\* alternatives.
register_no_check(backend, func) ==
    /\ IF backend = 0
       THEN /\ ret' = Call("register", "T1", backend, <<>>, Raise("Register must be a Backend!"))
            /\ UNCHANGED <<alternatives, cache, c_hits, c_misses, c_priority_misses,
                           used>>
       ELSE /\ alternatives' = Append(alternatives, <<backend, func>>)
            /\ cache' = <<>>
            /\ c_hits' = 0
            /\ c_misses' = 0
            /\ c_priority_misses' = 0
            /\ used' = <<>>
            /\ ret' = Call("register", "T1", backend, <<>>, Pair(backend, func))
    /\ UNCHANGED <<globals, contexts, fallback, lone>>

\* Dispatchable.register(backend, func); backend 0 is an object that is no
\* Backend.
register(backend, func) ==
    /\ IF backend = 0
       THEN /\ ret' = Call("register", "T1", backend, <<>>, Raise("Register must be a Backend!"))
            /\ UNCHANGED <<alternatives, cache, c_hits, c_misses, c_priority_misses,
                           used>>
       ELSE IF \E i \in 1..Len(alternatives) : alternatives[i][1] = backend
       THEN /\ ret' = Call("register", "T1", backend, <<>>,
                           Raise("Backend already has an alternative registered."))
            /\ UNCHANGED <<alternatives, cache, c_hits, c_misses, c_priority_misses,
                           used>>
       ELSE /\ alternatives' = Append(alternatives, <<backend, func>>)
            /\ cache' = <<>>
            /\ c_hits' = 0
            /\ c_misses' = 0
            /\ c_priority_misses' = 0
            /\ used' = <<>>
            /\ ret' = Call("register", "T1", backend, <<>>, Pair(backend, func))
    /\ UNCHANGED <<globals, contexts, fallback, lone>>

\* Dispatchable._clear_cache()
_clear_cache ==
    /\ cache' = <<>>
    /\ c_hits' = 0
    /\ c_misses' = 0
    /\ c_priority_misses' = 0
    /\ used' = <<>>
    /\ ret' = Call("_clear_cache", "T1", 0, <<>>, Returned)
    /\ UNCHANGED <<globals, contexts, fallback, alternatives, lone>>

OpenScopes == Len(scopes["T1"]) + Len(scopes["T2"])

\* A variant of __enter__ that sets the priority without incrementing
\* _max_priority first.
enter_same_epoch(ctx, b) ==
    /\ Len(scopes[ctx]) < MaxDepth
    /\ _max_priority < 65536 + MaxScopeSteps
    /\ IF _all_backends[b].fixed_priority >= 0
       THEN /\ ret' = Call("__enter__", ctx, b, <<>>, Raise("Cannot prioritize this backend!"))
            /\ UNCHANGED <<_max_priority, contexts>>
       ELSE /\ _max_priority' = _max_priority
            /\ tokens' = [tokens EXCEPT ![b] =
                            Append(@, [ctx |-> ctx, old |-> ctx_priority[ctx][b]])]
            /\ ctx_priority' = [ctx_priority EXCEPT ![ctx][b] = _max_priority']
            /\ scopes' = [scopes EXCEPT ![ctx] = Append(@, b)]
            /\ before' = [before EXCEPT ![ctx] = Append(@, ctx_priority[ctx][b])]
            /\ ret' = Call("__enter__", ctx, b, <<>>, Returned)
    /\ UNCHANGED <<_backend_counter, _all_backends, resolver, lone, used>>

\* A variant of __enter__ that gives every activation the priority 2**16 + 1.
enter_constant_priority(ctx, b) ==
    /\ Len(scopes[ctx]) < MaxDepth
    /\ _max_priority < 65536 + MaxScopeSteps
    /\ IF _all_backends[b].fixed_priority >= 0
       THEN /\ ret' = Call("__enter__", ctx, b, <<>>, Raise("Cannot prioritize this backend!"))
            /\ UNCHANGED <<_max_priority, contexts>>
       ELSE /\ _max_priority' = _max_priority + 1
            /\ tokens' = [tokens EXCEPT ![b] =
                            Append(@, [ctx |-> ctx, old |-> ctx_priority[ctx][b]])]
            /\ ctx_priority' = [ctx_priority EXCEPT ![ctx][b] = 65537]
            /\ scopes' = [scopes EXCEPT ![ctx] = Append(@, b)]
            /\ before' = [before EXCEPT ![ctx] = Append(@, ctx_priority[ctx][b])]
            /\ ret' = Call("__enter__", ctx, b, <<>>, Returned)
    /\ UNCHANGED <<_backend_counter, _all_backends, resolver, lone, used>>

\* A variant of __enter__ after which the Dispatchable's cache is empty.
enter_clears_cache(ctx, b) ==
    /\ Len(scopes[ctx]) < MaxDepth
    /\ _max_priority < 65536 + MaxScopeSteps
    /\ IF _all_backends[b].fixed_priority >= 0
       THEN /\ ret' = Call("__enter__", ctx, b, <<>>, Raise("Cannot prioritize this backend!"))
            /\ UNCHANGED <<_max_priority, contexts, cache, used>>
       ELSE /\ _max_priority' = _max_priority + 1
            /\ tokens' = [tokens EXCEPT ![b] =
                            Append(@, [ctx |-> ctx, old |-> ctx_priority[ctx][b]])]
            /\ ctx_priority' = [ctx_priority EXCEPT ![ctx][b] = _max_priority']
            /\ scopes' = [scopes EXCEPT ![ctx] = Append(@, b)]
            /\ before' = [before EXCEPT ![ctx] = Append(@, ctx_priority[ctx][b])]
            /\ cache' = <<>>
            /\ used' = <<>>
            /\ ret' = Call("__enter__", ctx, b, <<>>, Returned)
    /\ UNCHANGED <<_backend_counter, _all_backends, fallback, alternatives, c_hits,
                   c_misses, c_priority_misses, lone>>

\* A variant of __enter__ that increments _max_priority before it looks at
\* fixed_priority.
enter_counts_first(ctx, b) ==
    /\ Len(scopes[ctx]) < MaxDepth
    /\ _max_priority < 65536 + MaxScopeSteps
    /\ _max_priority' = _max_priority + 1
    /\ IF _all_backends[b].fixed_priority >= 0
       THEN /\ ret' = Call("__enter__", ctx, b, <<>>, Raise("Cannot prioritize this backend!"))
            /\ UNCHANGED contexts
       ELSE /\ tokens' = [tokens EXCEPT ![b] =
                            Append(@, [ctx |-> ctx, old |-> ctx_priority[ctx][b]])]
            /\ ctx_priority' = [ctx_priority EXCEPT ![ctx][b] = _max_priority']
            /\ scopes' = [scopes EXCEPT ![ctx] = Append(@, b)]
            /\ before' = [before EXCEPT ![ctx] = Append(@, ctx_priority[ctx][b])]
            /\ ret' = Call("__enter__", ctx, b, <<>>, Returned)
    /\ UNCHANGED <<_backend_counter, _all_backends, resolver, lone, used>>

\* `with backend:` reaches Backend.__enter__ in context ctx.
enter(ctx, b) ==
    /\ Len(scopes[ctx]) < MaxDepth
    /\ _max_priority < 65536 + MaxScopeSteps
    /\ IF _all_backends[b].fixed_priority >= 0
       THEN /\ ret' = Call("__enter__", ctx, b, <<>>, Raise("Cannot prioritize this backend!"))
            /\ UNCHANGED <<_max_priority, contexts>>
       ELSE /\ _max_priority' = _max_priority + 1
            /\ tokens' = [tokens EXCEPT ![b] =
                            Append(@, [ctx |-> ctx, old |-> ctx_priority[ctx][b]])]
            /\ ctx_priority' = [ctx_priority EXCEPT ![ctx][b] = _max_priority']
            /\ scopes' = [scopes EXCEPT ![ctx] = Append(@, b)]
            /\ before' = [before EXCEPT ![ctx] = Append(@, ctx_priority[ctx][b])]
            /\ ret' = Call("__enter__", ctx, b, <<>>, Returned)
    /\ UNCHANGED <<_backend_counter, _all_backends, resolver, lone, used>>

\* A variant of __exit__ that disables the backend instead of resetting the
\* context variable to the token's old value.
exit_disables(ctx) ==
    /\ scopes[ctx] # <<>>
    /\ _max_priority < 65536 + MaxScopeSteps
    /\ LET b == scopes[ctx][Len(scopes[ctx])]
           n == Len(tokens[b])
       IN  /\ _max_priority' = _max_priority + 1
           /\ scopes' = [scopes EXCEPT ![ctx] = SubSeq(@, 1, Len(@) - 1)]
           /\ before' = [before EXCEPT ![ctx] = SubSeq(@, 1, Len(@) - 1)]
           /\ IF n = 0
              THEN /\ ret' = Call("__exit__", ctx, b, <<>>, Raise("pop from empty list"))
                   /\ UNCHANGED <<tokens, ctx_priority>>
              ELSE /\ tokens' = [tokens EXCEPT ![b] = SubSeq(@, 1, n - 1)]
                   /\ ctx_priority' = [ctx_priority EXCEPT ![ctx][b] = -1]
                   /\ ret' = Call("__exit__", ctx, b, <<>>, Returned)
    /\ UNCHANGED <<_backend_counter, _all_backends, resolver, lone, used>>

\* A variant of __exit__ that leaves _max_priority as it is.
exit_same_epoch(ctx) ==
    /\ scopes[ctx] # <<>>
    /\ _max_priority < 65536 + MaxScopeSteps
    /\ LET b == scopes[ctx][Len(scopes[ctx])]
           n == Len(tokens[b])
       IN  /\ _max_priority' = _max_priority
           /\ scopes' = [scopes EXCEPT ![ctx] = SubSeq(@, 1, Len(@) - 1)]
           /\ before' = [before EXCEPT ![ctx] = SubSeq(@, 1, Len(@) - 1)]
           /\ IF n = 0
              THEN /\ ret' = Call("__exit__", ctx, b, <<>>, Raise("pop from empty list"))
                   /\ UNCHANGED <<tokens, ctx_priority>>
              ELSE LET token == tokens[b][n] IN
                   /\ tokens' = [tokens EXCEPT ![b] = SubSeq(@, 1, n - 1)]
                   /\ IF token.ctx # ctx
                      THEN /\ ret' = Call("__exit__", ctx, b, <<>>,
                                          Raise("Token was created in a different Context"))
                           /\ UNCHANGED ctx_priority
                      ELSE /\ ctx_priority' = [ctx_priority EXCEPT ![ctx][b] = token.old]
                           /\ ret' = Call("__exit__", ctx, b, <<>>, Returned)
    /\ UNCHANGED <<_backend_counter, _all_backends, resolver, lone, used>>

\* The innermost `with backend:` of context ctx ends: Backend.__exit__.
exit(ctx) ==
    /\ scopes[ctx] # <<>>
    /\ _max_priority < 65536 + MaxScopeSteps
    /\ LET b == scopes[ctx][Len(scopes[ctx])]
           n == Len(tokens[b])
       IN  /\ _max_priority' = _max_priority + 1
           /\ scopes' = [scopes EXCEPT ![ctx] = SubSeq(@, 1, Len(@) - 1)]
           /\ before' = [before EXCEPT ![ctx] = SubSeq(@, 1, Len(@) - 1)]
           /\ IF n = 0
              THEN /\ ret' = Call("__exit__", ctx, b, <<>>, Raise("pop from empty list"))
                   /\ UNCHANGED <<tokens, ctx_priority>>
              ELSE LET token == tokens[b][n] IN
                   /\ tokens' = [tokens EXCEPT ![b] = SubSeq(@, 1, n - 1)]
                   /\ IF token.ctx # ctx
                      THEN /\ ret' = Call("__exit__", ctx, b, <<>>,
                                          Raise("Token was created in a different Context"))
                           /\ UNCHANGED ctx_priority
                      ELSE /\ ctx_priority' = [ctx_priority EXCEPT ![ctx][b] = token.old]
                           /\ ret' = Call("__exit__", ctx, b, <<>>, Returned)
    /\ UNCHANGED <<_backend_counter, _all_backends, resolver, lone, used>>

\* What dispatch(types) called in context ctx does in the current state.
Dispatched(ctx, types) ==
    dispatch(_all_backends, ctx_priority, _max_priority, alternatives, fallback,
             cache, c_hits, c_misses, c_priority_misses, ctx, types)

\* The uses of the keys once dispatch(types) has run with outcome res: a
\* call that found or inserted its key is the latest use of that key.
Use(types, res) ==
    LET typet == sorted_unique_types(types)
        others == SelectSeq(used, LAMBDA k : k # typet)
    IN  IF Len(typet) = 0 \/ res.fault = InvalidHierarchy THEN used
        ELSE Append(others, typet)

\* Dispatchable.dispatch(types) called in context ctx.
do_dispatch(ctx, types) ==
    /\ LET d == Dispatched(ctx, types) IN
       /\ cache' = d.cache
       /\ c_hits' = d.c_hits
       /\ c_misses' = d.c_misses
       /\ c_priority_misses' = d.c_priority_misses
       /\ used' = Use(types, d.res)
       /\ ret' = Call("dispatch", ctx, 0, types, d.res)
    /\ UNCHANGED <<globals, contexts, fallback, alternatives, lone>>

\* A dispatch call of a run that makes at most MaxCalls of them between two
\* cache resets.
call_dispatch(ctx, types) ==
    /\ c_hits + c_misses < MaxCalls
    /\ do_dispatch(ctx, types)

-----------------------------------------------------------------------------
(* One task: the calls of a single context on one Dispatchable.            *)

\* The Backend objects a run may create.
Kind(dt, promotable, is_opt_in) ==
    [dispatch_type |-> dt, promotable_types |-> promotable, opt_in |-> is_opt_in]

BackendKinds ==
    { Kind("Dog", {}, FALSE), Kind("Dog", {}, TRUE), Kind("Dog", {"Animal"}, FALSE),
      Kind("Animal", {}, FALSE), Kind("Pet", {}, FALSE), Kind("Cat", {}, FALSE) }

\* The type tuples a run may dispatch on.
Inputs == { <<>>, <<"Dog">>, <<"Cat", "Dog">>, <<"Str">> }

\* The function registered with each backend (f0: with an object that is no
\* Backend).
Funcs == <<"f0", "f1", "f2", "f3", "f4", "f5">>

Next ==
    \/ \E k \in BackendKinds : NewBackend(k.dispatch_type, k.promotable_types, k.opt_in)
    \/ \E b \in 0..Len(_all_backends) : register(b, Funcs[b + 1])
    \/ _clear_cache
    \/ \E b \in Backends : enter("T1", b)
    \/ exit("T1")
    \/ \E types \in Inputs : call_dispatch("T1", types)

Spec == Init /\ [][Next]_vars

-----------------------------------------------------------------------------
(* Two tasks with independent contexts sharing the one Dispatchable.       *)

TaskKinds == { Kind("Dog", {}, FALSE), Kind("Dog", {}, TRUE) }

TaskInputs == { <<"Dog">>, <<"Str">> }

NextTasks ==
    \/ \E k \in TaskKinds : NewBackend(k.dispatch_type, k.promotable_types, k.opt_in)
    \/ \E b \in 0..Len(_all_backends) : register(b, Funcs[b + 1])
    \/ _clear_cache
    \/ \E ctx \in Contexts, b \in Backends : enter(ctx, b)
    \/ \E ctx \in Contexts : exit(ctx)
    \/ \E ctx \in Contexts, types \in TaskInputs : call_dispatch(ctx, types)

SpecTasks == Init /\ [][NextTasks]_vars

-----------------------------------------------------------------------------
(* Backend.matches on its own: a backend and a type tuple are drawn, and   *)
(* the one call is made.                                                   *)

Tuples(n) == UNION { [1..k -> Types] : k \in 0..n }

InitMatches ==
    /\ Constructed
    /\ fallback = None
    /\ m_backend \in [dispatch_type : Types, promotable_types : SUBSET Types,
                      fixed_priority : {1}]
    /\ m_types \in Tuples(MaxLen)
    /\ m_ret = -1
    /\ s_types = <<>>
    /\ s_other = <<>>
    /\ s_ret = <<>>
    /\ used = <<>>

call_matches ==
    /\ m_ret = -1
    /\ m_ret' = IF matches(m_backend, m_types) THEN 1 ELSE 0
    /\ UNCHANGED <<globals, contexts, resolver, ret, m_backend, m_types,
                   s_types, s_other, s_ret, used>>

NextMatches == call_matches

SpecMatches == InitMatches /\ [][NextMatches]_vars

-----------------------------------------------------------------------------
(* Notions the properties are stated with.                                 *)

Range(seq) == { seq[i] : i \in DOMAIN seq }

\* The backends registered on the Dispatchable, in registration order.
Registered == [i \in DOMAIN alternatives |-> alternatives[i][1]]

FuncOf(b) == alternatives[CHOOSE i \in DOMAIN alternatives : alternatives[i][1] = b][2]

InScope(ctx, b) == b \in Range(scopes[ctx])

\* The outcome of dispatch(types) called now in context ctx.
Outcome(ctx, types) == Dispatched(ctx, types).res

\* The outcome of the same call with the cache emptied first.
ColdOutcome(ctx, types) ==
    dispatch(_all_backends, ctx_priority, _max_priority, alternatives, fallback,
             <<>>, 0, 0, 0, ctx, types).res

OtherContext(ctx) == IF ctx = "T1" THEN "T2" ELSE "T1"

-----------------------------------------------------------------------------
\* C1: dispatch never returns an opt-in backend whose priority in the
\* calling context is the disabled value -1.
C1_NeverReturnsInactive ==
    (ret.op = "dispatch" /\ ret.res.backend # 0)
        => ~(opt_in(ret.res.backend) /\ ctx_priority[ret.ctx][ret.res.backend] = -1)

\* C2: while the other task has an opt-in backend C activated and the
\* calling task has not, a dispatch returns what it returns with C inactive
\* for the caller, which is what a dispatch on an empty cache computes from
\* the caller's own context.
C2_TasksIsolated ==
    (/\ ret.op = "dispatch"
     /\ \E C \in Backends :
            /\ opt_in(C)
            /\ InScope(OtherContext(ret.ctx), C)
            /\ ~InScope(ret.ctx, C)
            /\ ctx_priority[ret.ctx][C] = -1)
        => ret.res = ColdOutcome(ret.ctx, ret.types)

\* A Fixed backend A and an opt-in backend C of the same dispatch_type are
\* the registered backends, C registered after A.
FixedThenScoped(A, C) ==
    /\ Registered = <<A, C>>
    /\ ~opt_in(A)
    /\ opt_in(C)
    /\ _all_backends[A].dispatch_type = _all_backends[C].dispatch_type

\* C3: with Fixed A and opt-in C of the same dispatch_type registered (C
\* after A), dispatch on a tuple both match returns A while C's scope is
\* not entered (before it and after it) and C while it is.
C3_ScopedOverride ==
    \A A \in Backends, C \in Backends :
        FixedThenScoped(A, C) =>
            \A types \in Inputs :
                (/\ matches(_all_backends[A], sorted_unique_types(types))
                 /\ matches(_all_backends[C], sorted_unique_types(types)))
                    => Outcome("T1", types) =
                         IF InScope("T1", C) THEN Pair(C, FuncOf(C))
                         ELSE Pair(A, FuncOf(A))

\* Witness of C3: a dispatch after C's scope was entered and exited hits the
\* cached key and returns A again.
C3_Witness ==
    /\ ret.op = "dispatch"
    /\ c_hits >= 1
    /\ _max_priority >= 65538
    /\ scopes["T1"] = <<>>
    /\ \E A \in Backends, C \in Backends :
           /\ FixedThenScoped(A, C)
           /\ matches(_all_backends[C], sorted_unique_types(ret.types))
           /\ ret.res = Pair(A, FuncOf(A))

\* C4: in one task, dispatch gives the same outcome as a dispatch made
\* with the cache emptied first.
C4_CacheTransparent ==
    \A types \in Inputs : Outcome("T1", types) = ColdOutcome("T1", types)

\* Witness of C4: a dispatch answered from the stored priority-resolved
\* entry (more than one candidate, stamp equal to _max_priority).
C4_Witness ==
    /\ ret.op = "dispatch"
    /\ c_hits >= 1
    /\ c_priority_misses = 0
    /\ ret.res.backend # 0
    /\ \E i \in DOMAIN cache :
           /\ cache[i].key = sorted_unique_types(ret.types)
           /\ Len(cache[i].impls) > 1
           /\ cache[i].stamp = _max_priority

\* The candidate list dispatch builds for types from the alternatives.
Candidates(types) ==
    BuildMatching(_all_backends, alternatives, sorted_unique_types(types), 1, <<>>)

\* The backends of the candidate list that are enabled in context ctx.
Enabled(ctx, types) ==
    { b \in { c[1] : c \in Range(Candidates(types).impls) } :
        get_priority(_all_backends, ctx_priority, ctx, b) >= 0 }

Priority(ctx, b) == get_priority(_all_backends, ctx_priority, ctx, b)

\* C5 as stated: the ambiguous-resolution fault is raised only when two
\* enabled candidates of differing dispatch_type tie at the highest
\* priority.
C5_FaultOnlyOnTie ==
    \A types \in Inputs :
        Outcome("T1", types) = Raise(MultipleMatching)
            => \E a \in Enabled("T1", types), b \in Enabled("T1", types) :
                   /\ _all_backends[a].dispatch_type # _all_backends[b].dispatch_type
                   /\ Priority("T1", a) = Priority("T1", b)
                   /\ \A c \in Enabled("T1", types) : Priority("T1", c) <= Priority("T1", a)

\* C5 (amended): with more than one candidate in the list, dispatch raises
\* the ambiguous-resolution fault exactly when two enabled candidates differ
\* in dispatch_type, whatever their priorities; otherwise it returns the
\* enabled candidate of strictly highest priority, or the fallback or the
\* no-implementation fault when none is enabled.
C5_FaultOnDifferingTypes ==
    \A types \in Inputs :
        LET built == Candidates(types)
            en == Enabled("T1", types)
        IN  (~built.err /\ Len(built.impls) > 1) =>
                IF \E a \in en, b \in en :
                       _all_backends[a].dispatch_type # _all_backends[b].dispatch_type
                THEN Outcome("T1", types) = Raise(MultipleMatching)
                ELSE IF en = {}
                THEN Outcome("T1", types) =
                        IF fallback # None THEN Pair(0, fallback)
                        ELSE Raise(NoImplementation)
                ELSE \E a \in en :
                        /\ \A b \in en \ {a} : Priority("T1", a) > Priority("T1", b)
                        /\ Outcome("T1", types) = Pair(a, FuncOf(a))

\* Witness of C5: a dispatch raised the fault for two enabled candidates of
\* differing dispatch_type and different priorities.
C5_Witness ==
    /\ ret.op = "dispatch"
    /\ ret.res = Raise(MultipleMatching)
    /\ \E a \in Enabled("T1", ret.types), b \in Enabled("T1", ret.types) :
           /\ _all_backends[a].dispatch_type # _all_backends[b].dispatch_type
           /\ Priority("T1", a) # Priority("T1", b)

\* Backend A of concrete dispatch_type and backend B of an abstract
\* dispatch_type that A's is a subtype of are the two registered backends,
\* both enabled.
ConcreteAndAbstract(A, B) ==
    /\ Range(Registered) = {A, B}
    /\ A # B
    /\ _all_backends[A].dispatch_type \notin Abstract
    /\ _all_backends[B].dispatch_type \in Abstract
    /\ _all_backends[B].dispatch_type \in Supers[_all_backends[A].dispatch_type]
    /\ Priority("T1", A) >= 0
    /\ Priority("T1", B) >= 0

\* C6 as stated: with A (concrete Dog) and B (abstract Animal) registered
\* in either order, dispatch((Dog,)) returns A.
C6_ConcreteFirst ==
    \A A \in Backends, B \in Backends :
        ConcreteAndAbstract(A, B)
            => Outcome("T1", <<_all_backends[A].dispatch_type>>) = Pair(A, FuncOf(A))

\* B's abstract dispatch_type is the same as, or a subtype of, an abstract
\* member of A's promotable_types.
AcceptedByPromotable(A, B) ==
    \E p \in _all_backends[A].promotable_types :
        \/ p = _all_backends[B].dispatch_type
        \/ p \in Abstract /\ p \in Supers[_all_backends[B].dispatch_type]

\* C6 (amended): dispatch((Dog,)) returns A in either registration order
\* unless A's promotable_types accept B's dispatch_type, in which case both
\* backends claim to be more specific and dispatch raises the invalid
\* type-hierarchy fault.
C6_ConcreteFirstUnlessCyclic ==
    \A A \in Backends, B \in Backends :
        ConcreteAndAbstract(A, B)
            => Outcome("T1", <<_all_backends[A].dispatch_type>>) =
                 IF AcceptedByPromotable(A, B) THEN Raise(InvalidHierarchy)
                 ELSE Pair(A, FuncOf(A))

\* Witness of C6: B was registered before A and a dispatch on A's type
\* returned A.
C6_Witness ==
    /\ ret.op = "dispatch"
    /\ \E A \in Backends, B \in Backends :
           /\ ConcreteAndAbstract(A, B)
           /\ Registered = <<B, A>>
           /\ ret.types = <<_all_backends[A].dispatch_type>>
           /\ ret.res = Pair(A, FuncOf(A))

\* C9: when no registered backend matches a non-empty tuple, dispatch
\* returns (None, fallback) if there is a fallback and raises the
\* no-implementation fault otherwise; with Fixed A (Dog) and Fixed B (Cat)
\* registered and no fallback, dispatch((Dog,)) returns A's implementation
\* and dispatch((Str,)) raises the fault.
C9_NoMatch ==
    /\ \A types \in Inputs :
           (/\ sorted_unique_types(types) # <<>>
            /\ \A b \in Range(Registered) :
                   ~matches(_all_backends[b], sorted_unique_types(types)))
               => Outcome("T1", types) =
                    IF fallback # None THEN Pair(0, fallback)
                    ELSE Raise(NoImplementation)
    /\ \A A \in Backends, B \in Backends :
           (/\ Registered = <<A, B>>
            /\ ~opt_in(A) /\ ~opt_in(B)
            /\ _all_backends[A].dispatch_type = "Dog"
            /\ _all_backends[B].dispatch_type = "Cat"
            /\ fallback = None)
               => /\ Outcome("T1", <<"Dog">>) = Pair(A, FuncOf(A))
                  /\ Outcome("T1", <<"Str">>) = Raise(NoImplementation)

\* Witness of C9: with A (Dog) and B (Cat) registered and no fallback a
\* dispatch on (Str,) raised the no-implementation fault.
C9_Witness ==
    /\ ret.op = "dispatch"
    /\ ret.types = <<"Str">>
    /\ ret.res = Raise(NoImplementation)
    /\ fallback = None
    /\ Len(Registered) = 2
    /\ _all_backends[Registered[1]].dispatch_type = "Dog"
    /\ _all_backends[Registered[2]].dispatch_type = "Cat"

AlreadyRegistered == "Backend already has an alternative registered."

\* C10: a register of a backend already in alternatives raises the
\* duplicate-registration fault and leaves alternatives, the cache and the
\* counters as they were; a successful register appends to alternatives and
\* nothing else changes it, so every backend appears at most once, in
\* registration order.
C10_DuplicateRegistration ==
    [][/\ (ret'.op = "register" /\ ret'.res.fault = AlreadyRegistered)
            => /\ ret'.backend \in Range(Registered)
               /\ UNCHANGED <<alternatives, cache, c_hits, c_misses, c_priority_misses,
                           used>>
       /\ (ret'.op = "register" /\ ret'.res.fault = None)
            => /\ ret'.backend \notin Range(Registered)
               /\ alternatives' = Append(alternatives, <<ret'.backend, ret'.res.impl>>)
       /\ ret'.op # "register" => UNCHANGED alternatives
       /\ \A i \in DOMAIN alternatives', j \in DOMAIN alternatives' :
            alternatives'[i][1] = alternatives'[j][1] => i = j
      ]_vars

\* Witness of C10: a duplicate register was refused while the cache held an
\* entry and the counters were not zero.
C10_Witness ==
    /\ ret.op = "register"
    /\ ret.res.fault = AlreadyRegistered
    /\ cache # <<>>
    /\ c_hits + c_misses > 0

\* candidate is reference, or reference is abstract and candidate one of
\* its subtypes.
KnownSubtype(candidate, reference) ==
    \/ candidate = reference
    \/ reference \in Abstract /\ reference \in Supers[candidate]

\* Some type of the tuple is the dispatch_type (or a subtype of it when it
\* is abstract) and every other one is a known subtype of the dispatch_type
\* or of a promotable type.
AnchoredAndPromotable(b, types) ==
    \E i \in DOMAIN types :
        /\ KnownSubtype(types[i], b.dispatch_type)
        /\ \A j \in DOMAIN types \ {i} :
               \/ KnownSubtype(types[j], b.dispatch_type)
               \/ \E p \in b.promotable_types : KnownSubtype(types[j], p)

\* C7: matches(types) is true exactly when some type of the tuple is the
\* dispatch_type (or a subtype of an abstract one) and every other type is
\* a known subtype of the dispatch_type or of a promotable type; a backend
\* for Dog with promotable {Cat} matches (Dog, Cat), not (Dog, Str) and not
\* (Cat,).
C7_MatchesExactly ==
    m_ret # -1 =>
        /\ m_ret = 1 <=> AnchoredAndPromotable(m_backend, m_types)
        /\ (m_backend.dispatch_type = "Dog" /\ m_backend.promotable_types = {"Cat"})
             => /\ m_types = <<"Dog", "Cat">> => m_ret = 1
                /\ m_types = <<"Dog", "Str">> => m_ret = 0
                /\ m_types = <<"Cat">> => m_ret = 0

\* Witness of C7: the backend for Dog with promotable {Cat} was asked about
\* (Dog, Str) and refused it.
C7_Witness ==
    /\ m_ret = 0
    /\ m_backend.dispatch_type = "Dog"
    /\ m_backend.promotable_types = {"Cat"}
    /\ m_types = <<"Dog", "Str">>

\* The outcome of dispatch(m_types) on a Dispatchable without fallback on
\* which m_backend is the one registered backend.
LoneDispatch ==
    dispatch(<<m_backend>>, [c \in Contexts |-> <<-1>>], 65536, <<<<1, "f1">>>>,
             None, <<>>, 0, 0, 0, "T1", m_types).res

\* C8 as stated: a backend of concrete dispatch_type does not match, and
\* dispatch does not select it for, a tuple made of a proper subclass of
\* the dispatch_type alone or together with the dispatch_type.
C8_SubclassNeverAccepted ==
    (/\ m_ret # -1
     /\ m_backend.dispatch_type \notin Abstract
     /\ \E s \in Range(m_types) :
            /\ m_backend.dispatch_type \in Supers[s]
            /\ Range(m_types) \subseteq {s, m_backend.dispatch_type})
        => m_ret = 0 /\ LoneDispatch.backend # 1

\* C8 (amended): a concrete dispatch_type or promotable type accepts only
\* itself.  Every type of a tuple the backend matches is the dispatch_type
\* or a promotable type itself or a subtype of an abstract one of them, and
\* a concrete dispatch_type is itself in the tuple; dispatch selects the
\* backend only for such tuples.  So a subclass of a concrete dispatch_type
\* is accepted only when promotable_types lists it or an abstract supertype
\* of it.
C8_ConcreteClosed ==
    LET closed ==
            /\ \A t \in Range(m_types) :
                   \E r \in {m_backend.dispatch_type} \cup m_backend.promotable_types :
                       t = r \/ (r \in Abstract /\ r \in Supers[t])
            /\ m_backend.dispatch_type \notin Abstract
                   => m_backend.dispatch_type \in Range(m_types)
    IN  /\ m_ret = 1 => closed
        /\ (m_ret # -1 /\ LoneDispatch.backend = 1) => closed

\* Witness of C8: a backend for the concrete Dog with the concrete
\* promotable Cat was asked about Dog together with its subclass Puppy and
\* refused it.
C8_Witness ==
    /\ m_ret = 0
    /\ m_backend.dispatch_type = "Dog"
    /\ m_backend.promotable_types = {"Cat"}
    /\ m_types = <<"Dog", "Puppy">>

-----------------------------------------------------------------------------
\* C11: __enter__ on a backend with a fixed priority raises "Cannot
\* prioritize this backend!" and changes nothing: _max_priority, the
\* backend's priority and every other backend's priority, in every context,
\* are what they were, and so are the tokens and the open scopes.
C11_FixedNotActivated ==
    [][(ret'.op = "__enter__" /\ ~opt_in(ret'.backend))
          => /\ ret'.res = Raise("Cannot prioritize this backend!")
             /\ _max_priority' = _max_priority
             /\ \A c \in Contexts, b \in Backends :
                    get_priority(_all_backends', ctx_priority', c, b)
                        = get_priority(_all_backends, ctx_priority, c, b)
             /\ UNCHANGED <<_all_backends, ctx_priority, tokens, scopes>>]_vars

\* Witness of C11: __enter__ on a Fixed backend raised while an opt-in
\* backend was active, _max_priority still what that activation left.
C11_Witness ==
    /\ ret.op = "__enter__"
    /\ ret.res = Raise("Cannot prioritize this backend!")
    /\ ~opt_in(ret.backend)
    /\ _max_priority = 65537
    /\ \E C \in Backends : opt_in(C) /\ ctx_priority["T1"][C] = 65537

-----------------------------------------------------------------------------
\* A key of the cache as the first tier holds it: the key and its candidate
\* list.
Structural(entry) == [key |-> entry.key, impls |-> entry.impls]

\* C12: a successful register leaves the cache without any entry, in
\* either tier.  A dispatch of any tuple made next, one that was cached
\* before included, is a miss of the first tier and stores the candidate
\* list built from the new alternatives; when the newly registered backend
\* is enabled and is the only registered backend that matches the tuple,
\* that dispatch returns it.
C12_RegisterResetsCache ==
    (ret.op = "register" /\ ret.res.fault = None)
        => /\ cache = <<>>
           /\ alternatives[Len(alternatives)] = <<ret.backend, ret.res.impl>>
           /\ \A types \in Inputs \ {<<>>} :
                  LET d == Dispatched("T1", types)
                      built == Candidates(types)
                      typet == sorted_unique_types(types)
                      matching == { b \in Range(Registered) :
                                      matches(_all_backends[b], typet) }
                  IN  /\ d.c_misses = c_misses + 1
                      /\ d.c_hits = c_hits
                      /\ d.c_priority_misses = c_priority_misses
                      /\ ~built.err =>
                            /\ Len(d.cache) = 1
                            /\ Structural(d.cache[1]) =
                                  [key |-> typet, impls |-> built.impls]
                      /\ (/\ matching = {ret.backend}
                          /\ Priority("T1", ret.backend) >= 0)
                            => d.res = ret.res

\* Witness of C12: after a dispatch was cached the second backend was
\* registered, and the next dispatch missed the first tier and returned the
\* new backend.
C12_Witness ==
    /\ ret.op = "dispatch"
    /\ Len(alternatives) = 2
    /\ c_misses = 1
    /\ c_hits = 0
    /\ ret.res.backend = Registered[2]
    /\ ~opt_in(ret.res.backend)

-----------------------------------------------------------------------------
(* sorted_unique_types on its own: two type tuples with the same distinct  *)
(* types are drawn and canonicalized, for a Dispatchable with one          *)
(* registered backend.                                                     *)

SortBackends ==
    { [dispatch_type |-> "Dog", promotable_types |-> {"Cat"}, fixed_priority |-> 1],
      [dispatch_type |-> "Animal", promotable_types |-> {}, fixed_priority |-> 1] }

InitSort ==
    /\ Constructed
    /\ fallback = None
    /\ m_backend \in SortBackends
    /\ m_types = <<>>
    /\ m_ret = -1
    /\ s_types \in Tuples(MaxSortLen)
    /\ s_other \in { u \in Tuples(MaxSortLen) : Range(u) = Range(s_types) }
    /\ s_ret = <<>>
    /\ used = <<>>

call_sorted ==
    /\ s_ret = <<>>
    /\ s_ret' = <<sorted_unique_types(s_types), sorted_unique_types(s_other)>>
    /\ UNCHANGED <<globals, contexts, resolver, ret, m_backend, m_types, m_ret,
                   s_types, s_other, used>>

NextSort == call_sorted

SpecSort == InitSort /\ [][NextSort]_vars

\* dispatch(types) on a Dispatchable without fallback on which m_backend is
\* the one registered backend, with cache cch and the counters of st.
SortDispatch(cch, st, types) ==
    dispatch(<<m_backend>>, [c \in Contexts |-> <<-1>>], 65536, <<<<1, "f1">>>>,
             None, cch, st.c_hits, st.c_misses, st.c_priority_misses, "T1", types)

\* C13: sorted_unique_types returns the distinct types of its argument in
\* the one order of their addresses: nothing twice, nothing lost, the same
\* result for its own result, and the same result for two tuples with the
\* same distinct types whatever their order and repetitions.  dispatch of
\* two such tuples gives the same outcome, and the second call finds the
\* cache entry the first one stored.
C13_CanonicalKey ==
    s_ret # <<>> =>
        LET typet == s_ret[1]
            first == SortDispatch(<<>>, [c_hits |-> 0, c_misses |-> 0,
                                         c_priority_misses |-> 0], s_types)
            second == SortDispatch(first.cache, first, s_other)
        IN  /\ Range(typet) = Range(s_types)
            /\ \A i \in DOMAIN typet, j \in DOMAIN typet :
                   i < j => Addr[typet[i]] < Addr[typet[j]]
            /\ Len(typet) = Cardinality(Range(s_types))
            /\ sorted_unique_types(typet) = typet
            /\ s_ret[2] = typet
            /\ first.res = second.res
            /\ typet # <<>> =>
                  /\ first.c_misses = 1
                  /\ Len(first.cache) = 1
                  /\ second.c_hits = 1
                  /\ second.c_misses = 1
                  /\ Len(second.cache) = 1
                  /\ second.cache[1].key = typet

\* Witness of C13: (Dog, Cat, Dog) and (Cat, Dog) were canonicalized, the
\* first with a repetition and in the other order.
C13_Witness ==
    /\ s_ret # <<>>
    /\ s_types = <<"Dog", "Cat", "Dog">>
    /\ s_other = <<"Cat", "Dog">>
    /\ s_ret[1] = <<"Dog", "Cat">>
    /\ m_backend.dispatch_type = "Dog"

-----------------------------------------------------------------------------
\* The registered backends that match the canonical form of types.
Matching(types) ==
    { b \in Range(Registered) : matches(_all_backends[b], sorted_unique_types(types)) }

\* C14: the fixed priorities grow strictly with the order of creation, and
\* when the registered backends that match a tuple are Fixed backends of
\* one dispatch_type, dispatch returns the one of them created last, in
\* whatever order they were registered.
C14_LaterFixedWins ==
    /\ \A a \in Backends, b \in Backends :
           (a < b /\ ~opt_in(a) /\ ~opt_in(b))
               => _all_backends[a].fixed_priority < _all_backends[b].fixed_priority
    /\ \A types \in Inputs :
           LET M == Matching(types) IN
           (/\ M # {}
            /\ \A a \in M : ~opt_in(a)
            /\ \A a \in M, b \in M :
                   _all_backends[a].dispatch_type = _all_backends[b].dispatch_type)
               => LET last == CHOOSE b \in M : \A a \in M : a <= b
                  IN  Outcome("T1", types) = Pair(last, FuncOf(last))

\* Witness of C14: two Fixed backends of one dispatch_type, the one created
\* second registered first; a dispatch both match returned the second.
C14_Witness ==
    /\ ret.op = "dispatch"
    /\ Registered = <<2, 1>>
    /\ ~opt_in(1)
    /\ ~opt_in(2)
    /\ _all_backends[1].dispatch_type = _all_backends[2].dispatch_type
    /\ Matching(ret.types) = {1, 2}
    /\ ret.res = Pair(2, FuncOf(2))

-----------------------------------------------------------------------------
\* The last call was a `with backend:` entered or left: an __enter__ that
\* returned or an __exit__.
ScopeChanged(call) ==
    \/ call.op = "__enter__" /\ call.res.fault = None
    \/ call.op = "__exit__"

\* C15: _max_priority never decreases and every __enter__ that activates
\* and every __exit__ adds one to it, which leaves every stored stamp behind
\* it.  A dispatch that finds its key cached with more than one candidate
\* returns the stored answer when the stored stamp equals _max_priority,
\* and otherwise counts a priority miss and returns the choice computed
\* anew.
C15_EpochInvalidates ==
    [][/\ _max_priority' >= _max_priority
       /\ ScopeChanged(ret') =>
             /\ _max_priority' = _max_priority + 1
             /\ \A i \in DOMAIN cache' : cache'[i].stamp < _max_priority'
       /\ ret'.op = "dispatch" =>
             LET at == CacheIndex(cache, sorted_unique_types(ret'.types)) IN
             (at # 0 /\ Len(cache[at].impls) > 1) =>
                 IF cache[at].stamp = _max_priority
                 THEN /\ c_priority_misses' = c_priority_misses
                      /\ ret'.res = Pair(cache[at].res[1], cache[at].res[2])
                 ELSE /\ c_priority_misses' = c_priority_misses + 1
                      /\ ret'.res = ColdOutcome(ret'.ctx, ret'.types)]_vars

\* Witness of C15: a key with two candidates was dispatched, a scope was
\* entered or left, and the next dispatch of the key counted a priority
\* miss and stored the new choice under the new _max_priority.
C15_Witness ==
    /\ ret.op = "dispatch"
    /\ c_misses = 1
    /\ c_hits = 1
    /\ c_priority_misses = 1
    /\ _max_priority > 65536
    /\ Len(cache) = 1
    /\ Len(cache[1].impls) > 1
    /\ cache[1].stamp = _max_priority
    /\ ret.res.backend # 0

-----------------------------------------------------------------------------
\* C16: an __enter__ that activates and an __exit__ leave the cache as it
\* is, the keys and their candidate lists included, and the counters too.
\* A dispatch made next of a key cached before is a hit of the first tier,
\* not a miss, and keeps the stored candidate list.
C16_ScopesKeepStructure ==
    [][ScopeChanged(ret') =>
          /\ cache' = cache
          /\ UNCHANGED <<c_hits, c_misses, c_priority_misses>>
          /\ \A types \in Inputs :
                 LET typet == sorted_unique_types(types)
                     at == CacheIndex(cache, typet)
                     d == dispatch(_all_backends', ctx_priority', _max_priority',
                                   alternatives', fallback', cache', c_hits',
                                   c_misses', c_priority_misses', ret'.ctx, types)
                 IN  at # 0 =>
                         /\ d.c_hits = c_hits + 1
                         /\ d.c_misses = c_misses
                         /\ { Structural(d.cache[i]) : i \in DOMAIN d.cache }
                                = { Structural(cache[i]) : i \in DOMAIN cache }]_vars

\* Witness of C16: a key with two candidates was cached, a scope was
\* entered and left, and the next dispatch of the key was a hit.
C16_Witness ==
    /\ ret.op = "dispatch"
    /\ scopes["T1"] = <<>>
    /\ _max_priority = 65538
    /\ c_misses = 1
    /\ c_hits = 1
    /\ Len(cache) = 1
    /\ Len(cache[1].impls) > 1

-----------------------------------------------------------------------------
\* The positions of the scope stack of context ctx whose backend is in the
\* candidate list of types.
OpenCandidates(ctx, types) ==
    { i \in DOMAIN scopes[ctx] :
        \E c \in Range(Candidates(types).impls) : c[1] = scopes[ctx][i] }

\* C17: the priority an __enter__ assigns is above every fixed priority and
\* above every priority an earlier __enter__ assigned (those in force in a
\* context and those kept in the tokens).  When the candidates of a
\* dispatch all have one dispatch_type and some of them have an open scope
\* in the calling context, dispatch returns the one whose scope was entered
\* last among those still open.
C17_LatestScopeWins ==
    [][/\ (ret'.op = "__enter__" /\ ret'.res.fault = None) =>
             LET p == ctx_priority'[ret'.ctx][ret'.backend] IN
             /\ \A b \in Backends : _all_backends[b].fixed_priority < p
             /\ \A c \in Contexts, b \in Backends : ctx_priority[c][b] < p
             /\ \A b \in Backends : \A i \in DOMAIN tokens[b] : tokens[b][i].old < p
       /\ ret'.op = "dispatch" =>
             LET built == Candidates(ret'.types)
                 open == OpenCandidates(ret'.ctx, ret'.types)
             IN  (/\ ~built.err
                  /\ open # {}
                  /\ \A c \in Range(built.impls), e \in Range(built.impls) :
                         _all_backends[c[1]].dispatch_type
                             = _all_backends[e[1]].dispatch_type)
                     => LET latest == scopes[ret'.ctx][CHOOSE i \in open :
                                                          \A j \in open : j <= i]
                        IN  ret'.res = Pair(latest, FuncOf(latest))]_vars

\* Witness of C17: opt-in backends C and D of one dispatch_type are
\* registered; after three scope steps C's scope alone is open and a
\* dispatch both match returned C.
C17_Witness ==
    /\ ret.op = "dispatch"
    /\ _max_priority = 65539
    /\ \E C \in Backends, D \in Backends :
           /\ C # D
           /\ opt_in(C)
           /\ opt_in(D)
           /\ Matching(ret.types) = {C, D}
           /\ scopes["T1"] = <<C>>
           /\ ctx_priority["T1"][D] = -1
           /\ ret.res = Pair(C, FuncOf(C))

\* A second state of C17's case: both scopes open, D's entered last, and
\* the dispatch returned D.
C17_WitnessNested ==
    /\ ret.op = "dispatch"
    /\ \E C \in Backends, D \in Backends :
           /\ C # D
           /\ Matching(ret.types) = {C, D}
           /\ scopes["T1"] = <<C, D>>
           /\ ret.res = Pair(D, FuncOf(D))

-----------------------------------------------------------------------------
\* C18: in one task, where scopes nest, every __exit__ returns and gives
\* the backend the priority it had immediately before the __enter__ of the
\* scope that ends, the same backend entered again or not; no other
\* backend's priority changes; and once no scope is open every opt-in
\* backend has the disabled priority -1 again.
C18_ExitRestores ==
    [][/\ ret'.op = "__exit__" =>
             /\ ret'.res = Returned
             /\ ret'.backend = scopes[ret'.ctx][Len(scopes[ret'.ctx])]
             /\ ctx_priority'[ret'.ctx][ret'.backend]
                    = before[ret'.ctx][Len(before[ret'.ctx])]
             /\ \A b \in Backends \ {ret'.backend} :
                    ctx_priority'[ret'.ctx][b] = ctx_priority[ret'.ctx][b]
       /\ scopes'["T1"] = <<>> =>
             \A b \in Backends : opt_in(b) => ctx_priority'["T1"][b] = -1]_vars

\* Witness of C18: a backend was entered twice, one scope inside the other,
\* and the inner __exit__ gave it the priority of its first activation.
C18_Witness ==
    /\ ret.op = "__exit__"
    /\ ret.res = Returned
    /\ _max_priority = 65539
    /\ scopes["T1"] = <<ret.backend>>
    /\ before["T1"] = <<-1>>
    /\ ctx_priority["T1"][ret.backend] = 65537

-----------------------------------------------------------------------------
\* C19: with two tasks entering and leaving the scope of the same opt-in
\* backend in any interleaving, every __exit__ returns without a fault,
\* gives the backend, in the calling task's context, the priority it had
\* there before the matching __enter__, and leaves the other task's
\* priorities as they are.
C19_TasksRestoreOwn ==
    [][ret'.op = "__exit__" =>
          /\ ret'.res = Returned
          /\ ctx_priority'[ret'.ctx][ret'.backend]
                 = before[ret'.ctx][Len(before[ret'.ctx])]
          /\ ctx_priority'[OtherContext(ret'.ctx)]
                 = ctx_priority[OtherContext(ret'.ctx)]]_vars

-----------------------------------------------------------------------------
(* The cache filling up: a Fixed and an opt-in backend for Dog are         *)
(* registered, and dispatch is called with one new key after the other,    *)
(* and now and then again with one of the first keys.                      *)

\* The type tuples of such a run, each with other distinct types than the
\* others, in the order of their first use.
LRUKeys ==
    << <<"Dog">>, <<"Cat">>, <<"Str">>, <<"Animal">>, <<"Pet">>,
       <<"Puppy">>, <<"Cat", "Dog">>, <<"Dog", "Str">>, <<"Animal", "Dog">>,
       <<"Dog", "Pet", "Dog">>, <<"Puppy", "Dog">>, <<"Cat", "Str">>,
       <<"Animal", "Cat">>, <<"Cat", "Pet">>, <<"Puppy", "Cat">>,
       <<"Str", "Animal", "Str">>, <<"Pet", "Str">>, <<"Str", "Puppy">>,
       <<"Pet", "Animal">>, <<"Animal", "Puppy">>, <<"Puppy", "Pet">>,
       <<"Dog", "Cat", "Str">>, <<"Dog", "Cat", "Animal">>, <<"Dog", "Cat", "Pet">>,
       <<"Dog", "Cat", "Puppy">>, <<"Dog", "Str", "Animal">> >>

\* How many of the first keys are dispatched again.
Repeated == 2

\* The position in LRUKeys of the first key not dispatched yet: the keys
\* are first used in their order in LRUKeys.
Fresh == Len(used) + 1

InitLRU ==
    /\ _backend_counter = 2
    /\ _max_priority = 65536
    /\ _all_backends =
          << [dispatch_type |-> "Dog", promotable_types |-> {}, fixed_priority |-> 1],
             [dispatch_type |-> "Dog", promotable_types |-> {}, fixed_priority |-> -1] >>
    /\ ctx_priority = [c \in Contexts |-> <<-1, -1>>]
    /\ tokens = << <<>>, <<>> >>
    /\ scopes = [c \in Contexts |-> <<>>]
    /\ before = [c \in Contexts |-> <<>>]
    /\ fallback \in {None, "fallback"}
    /\ alternatives = << <<1, "f1">>, <<2, "f2">> >>
    /\ cache = <<>>
    /\ c_hits = 0
    /\ c_misses = 0
    /\ c_priority_misses = 0
    /\ ret = Call("register", "T1", 2, <<>>, Pair(2, "f2"))
    /\ m_backend = [dispatch_type |-> "Str", promotable_types |-> {},
                    fixed_priority |-> 1]
    /\ m_types = <<>>
    /\ m_ret = -1
    /\ s_types = <<>>
    /\ s_other = <<>>
    /\ s_ret = <<>>
    /\ used = <<>>

\* dispatch(LRUKeys[i]): the next new key, or one of the first keys again.
lru_dispatch(i) ==
    /\ \/ i = Fresh /\ i <= MaxKeys
       \/ /\ i < Fresh
          /\ i <= Repeated
          /\ c_hits + c_misses - (Fresh - 1) < MaxRepeats
    /\ do_dispatch("T1", LRUKeys[i])

NextLRU == \E i \in DOMAIN LRUKeys : lru_dispatch(i)

SpecLRU == InitLRU /\ [][NextLRU]_vars

\* The keys of the cache, the one at the front of the ordered dict first.
CacheKeys == [i \in DOMAIN cache |-> cache[i].key]

\* C20: the cache never holds more than CACHE_SIZE = 20 keys and no key
\* twice, and its keys are the keys used last, in the order of their last
\* use, where a dispatch that inserts its key and a dispatch that finds its
\* key both use it.  So the key at the front, the one a miss on the full
\* cache removes, is the least recently used one, and that miss removes no
\* other.
C20_LeastRecentlyUsed ==
    LET n == IF Len(used) < CACHE_SIZE THEN Len(used) ELSE CACHE_SIZE IN
    /\ Len(cache) <= CACHE_SIZE
    /\ \A i \in DOMAIN cache, j \in DOMAIN cache :
           i # j => cache[i].key # cache[j].key
    /\ CacheKeys = SubSeq(used, Len(used) - n + 1, Len(used))

\* Witness of C20: the cache was full, (Dog,) had been found again in the
\* meantime, and the miss that followed removed (Cat,), used less recently,
\* and kept (Dog,).
C20_Witness ==
    /\ ret.op = "dispatch"
    /\ Len(cache) = CACHE_SIZE
    /\ Len(used) = CACHE_SIZE + 1
    /\ c_hits >= 1
    /\ used[1] = <<"Cat">>
    /\ \E i \in DOMAIN cache : cache[i].key = <<"Dog">>
    /\ cache[Len(cache)].key = sorted_unique_types(ret.types)

-----------------------------------------------------------------------------
(* The order of registration: Fixed backends for the concrete Dog and for  *)
(* its abstract supertypes Animal and Pet were created, in some order, and *)
(* are registered in any order on the one Dispatchable.                    *)

OrderTypes == {"Dog", "Animal", "Pet"}

\* The type tuples such a run dispatches on.
OrderInputs == { <<"Dog">>, <<"Cat">>, <<"Puppy">> }

InitOrder ==
    /\ _backend_counter = Cardinality(OrderTypes)
    /\ _max_priority = 65536
    /\ \E created \in [1..Cardinality(OrderTypes) -> OrderTypes] :
           /\ \A i \in DOMAIN created, j \in DOMAIN created :
                  i # j => created[i] # created[j]
           /\ _all_backends =
                 [i \in DOMAIN created |->
                     [dispatch_type |-> created[i], promotable_types |-> {},
                      fixed_priority |-> i]]
    /\ ctx_priority = [c \in Contexts |-> [i \in 1..Cardinality(OrderTypes) |-> -1]]
    /\ tokens = [i \in 1..Cardinality(OrderTypes) |-> <<>>]
    /\ scopes = [c \in Contexts |-> <<>>]
    /\ before = [c \in Contexts |-> <<>>]
    /\ fallback \in {None, "fallback"}
    /\ alternatives = <<>>
    /\ cache = <<>>
    /\ c_hits = 0
    /\ c_misses = 0
    /\ c_priority_misses = 0
    /\ ret = Call("Backend", "T1", Cardinality(OrderTypes), <<>>, Returned)
    /\ m_backend = [dispatch_type |-> "Str", promotable_types |-> {},
                    fixed_priority |-> 1]
    /\ m_types = <<>>
    /\ m_ret = -1
    /\ s_types = <<>>
    /\ s_other = <<>>
    /\ s_ret = <<>>
    /\ used = <<>>

NextOrder ==
    \/ \E b \in 0..Len(_all_backends) : register(b, Funcs[b + 1])
    \/ _clear_cache
    \/ \E types \in OrderInputs : call_dispatch("T1", types)

SpecOrder == InitOrder /\ [][NextOrder]_vars

\* Backend b is more specific than backend o, and o not than b.
MoreSpecific(b, o) ==
    /\ _more_specific(_all_backends[b], _all_backends[o])
    /\ ~_more_specific(_all_backends[o], _all_backends[b])

\* C21: when one of the enabled registered backends that match a tuple is
\* more specific than every other one of them, dispatch returns it, in
\* whatever order the backends were registered; and the candidate list
\* built for the tuple never holds two backends one of which is more
\* specific than the other.
C21_OrderIndependent ==
    \A types \in OrderInputs :
        LET M == { b \in Matching(types) : Priority("T1", b) >= 0 }
            built == Candidates(types)
        IN  /\ \A b \in M :
                   (\A o \in M \ {b} : MoreSpecific(b, o))
                       => Outcome("T1", types) = Pair(b, FuncOf(b))
            /\ ~built.err =>
                   \A c \in Range(built.impls), e \in Range(built.impls) :
                       ~MoreSpecific(c[1], e[1])

-----------------------------------------------------------------------------
(* The last backends the counter admits: 2**16 - 2 or 2**16 - 1 Backend    *)
(* objects were created before; they are never registered nor entered and *)
(* are left out of _all_backends.  Two tasks create, register and enter    *)
(* the next ones.                                                          *)

LimitInputs == { <<"Dog">> }

InitLimit ==
    /\ _backend_counter \in {65536 - 2, 65536 - 1}
    /\ _max_priority = 65536
    /\ _all_backends = <<>>
    /\ ctx_priority = [c \in Contexts |-> <<>>]
    /\ tokens = <<>>
    /\ scopes = [c \in Contexts |-> <<>>]
    /\ before = [c \in Contexts |-> <<>>]
    /\ fallback = None
    /\ alternatives = <<>>
    /\ cache = <<>>
    /\ c_hits = 0
    /\ c_misses = 0
    /\ c_priority_misses = 0
    /\ ret = Call("init", "T1", 0, <<>>, Returned)
    /\ m_backend = [dispatch_type |-> "Str", promotable_types |-> {},
                    fixed_priority |-> 1]
    /\ m_types = <<>>
    /\ m_ret = -1
    /\ s_types = <<>>
    /\ s_other = <<>>
    /\ s_ret = <<>>
    /\ used = <<>>

\* A Backend construction of a run that goes on for at most MaxRefused
\* constructions after the counter has passed 2**16.
limit_backend(k) ==
    /\ _backend_counter < 65536 + MaxRefused
    /\ NewBackend(k.dispatch_type, k.promotable_types, k.opt_in)

NextLimit ==
    \/ \E k \in TaskKinds : limit_backend(k)
    \/ \E b \in 0..Len(_all_backends) : register(b, Funcs[b + 1])
    \/ \E ctx \in Contexts, b \in Backends : enter(ctx, b)
    \/ \E ctx \in Contexts : exit(ctx)
    \/ \E ctx \in Contexts, types \in LimitInputs : call_dispatch(ctx, types)

SpecLimit == InitLimit /\ [][NextLimit]_vars

\* C22: in every context, two distinct backends never have the same
\* priority when it is not the disabled -1: the fixed priorities differ
\* from each other, and the priority of an activated opt-in backend
\* differs from every fixed priority and from the priority of every other
\* activated opt-in backend.
C22_PrioritiesDistinct ==
    \A ctx \in Contexts : \A a \in Backends, b \in Backends :
        (a # b /\ Priority(ctx, a) >= 0) => Priority(ctx, a) # Priority(ctx, b)

\* Witness of C22: the backend with the highest fixed priority the counter
\* admits, 2**16, and an opt-in backend activated in both tasks.
C22_Witness ==
    /\ ret.op = "__enter__"
    /\ ret.res = Returned
    /\ \E a \in Backends, b \in Backends :
           /\ _all_backends[a].fixed_priority = 65536
           /\ opt_in(b)
           /\ Priority("T1", b) = 65537
           /\ Priority("T2", b) = 65538

\* C23 as stated: _max_priority is greater than the fixed priority of
\* every backend.
C23_EpochAboveFixed ==
    \A b \in Backends : _max_priority > _all_backends[b].fixed_priority

\* C23 (amended): _max_priority starts at 2**16 and never falls below it,
\* and no fixed priority is above 2**16, so _max_priority is at least the
\* fixed priority of every backend; it is equal to one only for the last
\* backend the counter admits, whose fixed priority is 2**16, and only
\* until the first scope is entered.  The priority of an activated opt-in
\* backend is greater than every fixed priority.
C23_EpochNotBelowFixed ==
    /\ _max_priority >= 65536
    /\ \A b \in Backends :
           /\ _all_backends[b].fixed_priority <= 65536
           /\ _max_priority >= _all_backends[b].fixed_priority
           /\ _max_priority = _all_backends[b].fixed_priority
                 => /\ _backend_counter >= 65536
                    /\ _max_priority = 65536
                    /\ \A ctx \in Contexts : scopes[ctx] = <<>>
           /\ \A ctx \in Contexts, c \in Backends :
                  (opt_in(c) /\ Priority(ctx, c) >= 0)
                      => Priority(ctx, c) > _all_backends[b].fixed_priority

\* Witness of C23: the Backend constructor was refused after it had given
\* the last backend it admits the fixed priority 2**16, the value of
\* _max_priority.
C23_Witness ==
    /\ ret.op = "Backend"
    /\ ret.res = Raise("Too many backends, oooops! :)")
    /\ _max_priority = 65536
    /\ \E b \in Backends : _all_backends[b].fixed_priority = _max_priority

====
